---- MODULE Spec2Model ----
(***************************************************************************)
(* Model of the Iridescence component (src/unnamed/part_000): the React    *)
(* effect that builds a WebGL session (renderer, program, animation loop,  *)
(* debounced resize, throttled pointer input) and its cleanup.             *)
(*                                                                         *)
(* Time is counted in units of 10/3 ms, so that FRAME_DURATION = 1000/30   *)
(* ms is exactly 10 units, the 50 ms pointer throttle is 15 units and the  *)
(* 100 ms resize debounce is 30 units.  Real numbers the code computes     *)
(* (pointer coordinates, aspect ratio, uTime) are exact rationals <<n, d>> *)
(* in lowest terms; <<1, 0>> stands for Infinity and <<0, 0>> for NaN.     *)
(***************************************************************************)
EXTENDS Integers, Sequences, FiniteSets, TLC

\* ------------------------------------------------------------------ bounds
\* the clock stops at MaxTime; the fine clock moves in steps of TimeStep (10 ms),
\* the coarse clock in steps of CoarseStep (50 ms)
MaxTime == 45
TimeStep == 3
CoarseStep == 15
\* the clock of the specification of the frame limiter alone stops at FrameHorizon
FrameHorizon == 24
\* the clock of the specification of the loop's progress stops at ProgressHorizon
ProgressHorizon == 21
\* the specification of the pointer smoothing moves its clock in steps of
\* SmoothStep and stops it at SmoothHorizon
SmoothStep == 10
SmoothHorizon == 50
MaxSessions == 2

\* ------------------------------------------------------- program constants
\* FRAME_DURATION = 1000 / TARGET_FPS = 33.33 ms = 10 units
FRAME_DURATION == 10
\* MOUSE_THROTTLE = 50 ms = 15 units
MOUSE_THROTTLE == 15
\* window.setTimeout(resize, 100): 100 ms = 30 units
RESIZE_DEBOUNCE == 30
\* Math.min(window.devicePixelRatio, 1.5), pixel ratios counted in halves
DprCap == 3
\* const scale = 0.5 combined with a pixel ratio in halves: w * 0.5 * (dpr/2) = w * dpr / 4
ScaleDen == 4
\* lerpFactor = 0.1 = 1 / LerpDen
LerpDen == 10
\* units of time in one second (t * 0.001 with t in ms): 1000 ms = 300 units
UnitsPerSecond == 300

\* ------------------------------------------------------------ environment
\* container boxes <<offsetWidth, offsetHeight>> the layout can give
ContainerSizes == {<<800, 600>>, <<1001, 500>>}
\* window.devicePixelRatio, in halves (2 = 1.0, 4 = 2.0)
DevicePixelRatios == {2, 4}
\* pointer positions <<clientX - rect.left, clientY - rect.top>>
ClientPoints == {<<200, 450>>}
\* further pointer positions, for the specification of the pointer throttle alone
MorePoints == {<<600, 150>>, <<0, 0>>}
\* a pointer position close to the centre of the container, for the
\* specification of the pointer smoothing
NearPoints == {<<401, 300>>}
\* props the host page may render the component with
Configs ==
  { [color |-> <<1, 1, 1>>, speed |-> 1, amplitude |-> <<1, 10>>, mouseReact |-> TRUE],
    [color |-> <<1, 0, 0>>, speed |-> 2, amplitude |-> <<1, 10>>, mouseReact |-> FALSE] }

Sessions == 1..MaxSessions

\* ------------------------------------------------------------- arithmetic
Min(a, b) == IF a < b THEN a ELSE b

Abs(a) == IF a < 0 THEN -a ELSE a

RECURSIVE GCD(_, _)
GCD(a, b) == IF b = 0 THEN a ELSE GCD(b, a % b)

\* n / d as a JavaScript number: a rational in lowest terms, Infinity or NaN
Div(n, d) ==
  IF d = 0 THEN (IF n = 0 THEN <<0, 0>> ELSE <<1, 0>>)
  ELSE LET g == GCD(Abs(n), Abs(d))
           s == IF d < 0 THEN -1 ELSE 1
       IN  <<(s * n) \div g, (s * d) \div g>>

LCM(a, b) == (a \div GCD(a, b)) * b

RatAdd(p, q) ==
  LET l == LCM(p[2], q[2]) IN Div(p[1] * (l \div p[2]) + q[1] * (l \div q[2]), l)

RatSub(p, q) ==
  LET l == LCM(p[2], q[2]) IN Div(p[1] * (l \div p[2]) - q[1] * (l \div q[2]), l)

RatMul(p, q) == Div(p[1] * q[1], p[2] * q[2])

Half == <<1, 2>>

One == <<1, 1>>

\* (mutation) the step is 1.1 of the distance: current jumps past the target
LerpOvershoot(a, b) == RatAdd(a, RatMul(RatSub(b, a), <<LerpDen + 1, LerpDen>>))

\* a += (b - a) * lerpFactor
Lerp(a, b) == RatAdd(a, RatMul(RatSub(b, a), <<1, LerpDen>>))

\* the least handle not in use: handles are only compared for equality
Fresh(used) ==
  CHOOSE n \in 1..(Cardinality(used) + 1) : n \notin used /\ \A m \in 1..(n - 1) : m \in used

\* ------------------------------------------------------------------ state
VARIABLES
  now,              \* host clock (performance.now / animation timestamps), in units
  box,              \* the container's current box <<offsetWidth, offsetHeight>>
  devicePixelRatio, \* window.devicePixelRatio, in halves
  mounted,          \* the component instance (and its container div) exists
  props,            \* the props of the last render
  mousePos,         \* useRef mousePos.current
  targetMousePos,   \* useRef targetMousePos.current
  cur,              \* number of the latest session (effect run); 0 before the first
  active,           \* the latest session's effect is set up and not yet cleaned up
  sess,             \* the closure variables of each session's effect run
  rafQueue,         \* host: pending animation callbacks [id, sess]
  timers,           \* host: pending timeouts [id, sess, due]
  resizeListeners,  \* host: sessions whose handleResize is registered on window
  mouseListeners,   \* host: sessions whose handleMouseMove is registered on the container
  children,         \* host: sessions whose canvas is a child node of the container
  acquired,         \* registrations made by the latest setup, in call order
  released,         \* release calls made by the latest cleanup run, in call order
  raised            \* a handler threw

vars ==
  <<now, box, devicePixelRatio, mounted, props, mousePos, targetMousePos, cur, active,
    sess, rafQueue, timers, resizeListeners, mouseListeners, children, acquired,
    released, raised>>

\* the refs' initial value { x: 0.5, y: 0.5 }
InitialPointer == [x |-> Half, y |-> Half]

\* the closure of an effect run that does not exist (not yet run, or unreachable)
\* calls: the timestamps update() was invoked with; drawn: the timestamps of the
\* frames it rendered; moved: handleMouseMove was invoked; failed: the stage at
\* which the construction of the session failed, "none" if it did not; ops: the
\* steps of the latest invocation of update(), in the order it took them
NoSession ==
  [ live |-> FALSE, mouseReact |-> FALSE, dpr |-> 0, canvasW |-> 0, canvasH |-> 0,
    hasProgram |-> FALSE, uTime |-> <<0, 1>>, uColor |-> <<0, 0, 0>>,
    uResolution |-> <<0, 0, <<0, 0>>>>, uMouse |-> <<<<0, 1>>, <<0, 1>>>>,
    uAmplitude |-> <<0, 1>>, uSpeed |-> 0, animateId |-> 0, lastFrameTime |-> 0,
    resizeTimeout |-> 0, lastMouseUpdate |-> 0, contextLost |-> FALSE,
    calls |-> {}, drawn |-> {}, moved |-> FALSE, failed |-> "none",
    ops |-> <<>> ]

\* the part of the state that setup, cleanup and the handlers read and write
World ==
  [ sess |-> sess, rafQueue |-> rafQueue, timers |-> timers,
    resizeListeners |-> resizeListeners, mouseListeners |-> mouseListeners,
    children |-> children, acquired |-> acquired, released |-> released,
    raised |-> raised, mousePos |-> mousePos, targetMousePos |-> targetMousePos ]

Commit(w) ==
  /\ sess' = w.sess
  /\ rafQueue' = w.rafQueue
  /\ timers' = w.timers
  /\ resizeListeners' = w.resizeListeners
  /\ mouseListeners' = w.mouseListeners
  /\ children' = w.children
  /\ acquired' = w.acquired
  /\ released' = w.released
  /\ raised' = w.raised
  /\ mousePos' = w.mousePos
  /\ targetMousePos' = w.targetMousePos

\* ---------------------------------------------------------- host handles
RafIdsInUse(w) ==
  {e.id : e \in w.rafQueue} \cup {w.sess[s].animateId : s \in {x \in Sessions : w.sess[x].live}}

TimerIdsInUse(w) ==
  {e.id : e \in w.timers} \cup {w.sess[s].resizeTimeout : s \in {x \in Sessions : w.sess[x].live}}

\* (mutation) the handle stored before is handed out again
RequestAnimationFrameStale(w, s) == w.sess[s].animateId

\* requestAnimationFrame(update) called by session s: the new handle
RequestAnimationFrame(w, s) == Fresh(RafIdsInUse(w))

\* (mutation) the callback is not cancelled
CancelAnimationFrameNoop(q, id) == q

\* cancelAnimationFrame(id): the callback list without that handle
CancelAnimationFrame(q, id) == {e \in q : e.id # id}

\* (mutation) the timeout is not cleared
ClearTimeoutNoop(tms, id) == tms

\* clearTimeout(id): the timer list without that handle
ClearTimeout(tms, id) == {e \in tms : e.id # id}

\* a session some host registration still refers to
Registered(w, s) ==
  \/ \E e \in w.rafQueue : e.sess = s
  \/ \E e \in w.timers : e.sess = s
  \/ s \in w.resizeListeners
  \/ s \in w.mouseListeners
  \/ s \in w.children

\* ----------------------------------------------------------------- resize
\* (mutation) the pixel ratio is left out of the canvas size
CanvasDimNoDpr(offset, dpr) == offset \div 2

\* renderer.setSize(offset * scale, ...): the canvas attribute is
\* offset * 0.5 * dpr truncated to an integer (canvas.width is an unsigned long)
CanvasDim(offset, dpr) == (offset * dpr) \div ScaleDen

\* (mutation) the aspect is a fixed 4:3, not recomputed from the canvas
ResolutionFixedAspect(cw, ch) == <<cw, ch, <<4, 3>>>>

\* new Color(gl.canvas.width, gl.canvas.height, gl.canvas.width / gl.canvas.height)
Resolution(cw, ch) == <<cw, ch, Div(cw, ch)>>

\* resize() of session s with the container box b
Resize(w, s, b) ==
  LET c  == w.sess[s]
      cw == CanvasDim(b[1], c.dpr)
      ch == CanvasDim(b[2], c.dpr)
      c1 == [c EXCEPT !.canvasW = cw, !.canvasH = ch]
      c2 == IF c.hasProgram THEN [c1 EXCEPT !.uResolution = Resolution(cw, ch)] ELSE c1
  IN  [w EXCEPT !.sess[s] = c2]

\* handleResize() of session s at time t: clearTimeout, then setTimeout(resize, 100)
HandleResize(w, s, t) ==
  LET c   == w.sess[s]
      tms == ClearTimeout(w.timers, c.resizeTimeout)
      id  == Fresh(TimerIdsInUse([w EXCEPT !.timers = tms]))
  IN  [w EXCEPT !.timers = tms \cup {[id |-> id, sess |-> s, due |-> t + RESIZE_DEBOUNCE]},
                !.sess[s].resizeTimeout = id]

\* the resize event dispatched to every registered handleResize, in registration order
RECURSIVE DispatchResize(_, _, _)
DispatchResize(w, todo, t) ==
  IF todo = {} THEN w
  ELSE LET s == CHOOSE x \in todo : \A y \in todo : x <= y
       IN  DispatchResize(HandleResize(w, s, t), todo \ {s}, t)

\* ----------------------------------------------------------------- update
\* (mutation) the limiter never holds a frame back
AdmittedNoLimiter(elapsed) == elapsed >= 0

\* (mutation) the limiter holds every frame back
AdmittedNever(elapsed) == FALSE

\* (mutation) the limiter admits a frame after half the interval
AdmittedAtHalfInterval(elapsed) == ~(2 * elapsed < FRAME_DURATION)

\* the FPS limiter: the frame is drawn unless elapsed < FRAME_DURATION
Admitted(elapsed) == ~(elapsed < FRAME_DURATION)

\* (mutation) the whole elapsed time is carried over: lastFrameTime never advances
CarryOverStale(t, elapsed) == t - elapsed

\* (mutation) no carry-over: lastFrameTime is the timestamp of the frame
CarryOverNone(t, elapsed) == t

\* lastFrameTime = t - (elapsed % FRAME_DURATION)
CarryOver(t, elapsed) == t - (elapsed % FRAME_DURATION)

\* (mutation) the time uniform is written in milliseconds
TimeUniformMillis(t) == Div(t * 10, 3)

\* program.uniforms.uTime.value = t * 0.001
TimeUniform(t) == Div(t, UnitsPerSecond)

\* update(t) of session s, entered from the animation callback e
Update(w, e, t) ==
  LET s       == e.sess
      q       == w.rafQueue \ {e}
      w0      == [w EXCEPT !.rafQueue = q]
      \* animateId = requestAnimationFrame(update)
      id      == RequestAnimationFrame(w0, s)
      w1      == [w0 EXCEPT !.rafQueue = q \cup {[id |-> id, sess |-> s]},
                            !.sess[s].animateId = id,
                            !.sess[s].calls = @ \cup {t},
                            !.sess[s].ops = <<"schedule">>]
      \* const elapsed = t - lastFrameTime
      elapsed == t - w1.sess[s].lastFrameTime
      \* lastFrameTime = t - (elapsed % FRAME_DURATION)
      w2      == [w1 EXCEPT !.sess[s].lastFrameTime = CarryOver(t, elapsed)]
      \* mousePos.current.x += ...; mousePos.current.y += ...
      w3      == [w2 EXCEPT !.mousePos = [x |-> Lerp(@.x, w2.targetMousePos.x),
                                          y |-> Lerp(@.y, w2.targetMousePos.y)],
                            !.sess[s].ops = Append(@, "smooth")]
      \* program.uniforms.uMouse.value[0] = mousePos.current.x; ...[1] = ...y
      w4      == [w3 EXCEPT !.sess[s].uMouse = <<w3.mousePos.x, w3.mousePos.y>>]
      \* program.uniforms.uTime.value = t * 0.001
      w5      == [w4 EXCEPT !.sess[s].uTime = TimeUniform(t),
                            !.sess[s].ops = Append(@, "time")]
      \* renderer.render({ scene: mesh })
      w6      == [w5 EXCEPT !.sess[s].drawn = @ \cup {t},
                            !.sess[s].ops = Append(@, "draw")]
  IN  IF ~Admitted(elapsed) THEN w1 ELSE w6

\* ---------------------------------------------------------- handleMouseMove
\* (mutation) an event exactly MOUSE_THROTTLE after the last one is dropped too
ThrottledInclusive(t, last) == t - last <= MOUSE_THROTTLE

\* the throttle: the event is dropped if now - lastMouseUpdate < MOUSE_THROTTLE
Throttled(t, last) == t - last < MOUSE_THROTTLE

\* (mutation) the vertical coordinate is not flipped
PointerTargetUnflipped(pt, b) == [x |-> Div(pt[1], b[1]), y |-> Div(pt[2], b[2])]

\* { x, y } of an event at offset pt inside a container of box b
PointerTarget(pt, b) == [x |-> Div(pt[1], b[1]), y |-> RatSub(One, Div(pt[2], b[2]))]

\* handleMouseMove(e) of session s at time t
HandleMouseMove(w, s, pt, b, t) ==
  IF Throttled(t, w.sess[s].lastMouseUpdate) THEN [w EXCEPT !.sess[s].moved = TRUE]
  ELSE [w EXCEPT !.sess[s].moved = TRUE,
                 !.sess[s].lastMouseUpdate = t,
                 !.targetMousePos = PointerTarget(pt, b)]

RECURSIVE DispatchMouseMove(_, _, _, _, _)
DispatchMouseMove(w, todo, pt, b, t) ==
  IF todo = {} THEN w
  ELSE LET s == CHOOSE x \in todo : \A y \in todo : x <= y
       IN  DispatchMouseMove(HandleMouseMove(w, s, pt, b, t), todo \ {s}, pt, b, t)

\* ------------------------------------------------------------------ setup
\* closures no host registration refers to any more are unreachable
Collect(w, keep) ==
  [w EXCEPT !.sess = [s \in Sessions |->
                        IF s = keep \/ Registered(w, s) THEN w.sess[s] ELSE NoSession]]

\* (mutation) the pointer uniform starts at the centre, not at the ref's value
NewProgramCentredMouse(c, p, mp) ==
  [c EXCEPT !.hasProgram = TRUE,
            !.uTime = <<0, 1>>,
            !.uColor = p.color,
            !.uResolution = Resolution(c.canvasW, c.canvasH),
            !.uMouse = <<Half, Half>>,
            !.uAmplitude = p.amplitude,
            !.uSpeed = p.speed,
            !.lastFrameTime = 0]

\* new Program(gl, { vertex, fragment, uniforms }) and let lastFrameTime = 0,
\* for the closure c, props p and the ref value mp = mousePos.current
NewProgram(c, p, mp) ==
  [c EXCEPT !.hasProgram = TRUE,
            !.uTime = <<0, 1>>,
            !.uColor = p.color,
            !.uResolution = Resolution(c.canvasW, c.canvasH),
            !.uMouse = <<mp.x, mp.y>>,
            !.uAmplitude = p.amplitude,
            !.uSpeed = p.speed,
            !.lastFrameTime = 0]

\* the effect body for session s, run with props p, container box b and
\* window.devicePixelRatio dprEnv
Setup(w, s, p, b, dprEnv) ==
  LET \* new Renderer({ dpr: Math.min(window.devicePixelRatio, 1.5), ... })
      c0 == [NoSession EXCEPT !.live = TRUE, !.dpr = Min(dprEnv, DprCap),
                              !.mouseReact = p.mouseReact]
      w0 == [Collect(w, s) EXCEPT !.sess[s] = c0, !.acquired = <<"context">>,
                                  !.released = <<>>]
      \* window.addEventListener('resize', handleResize, false); resize()
      w1 == [w0 EXCEPT !.resizeListeners = @ \cup {s},
                       !.acquired = Append(@, "resizeListener")]
      w2 == Resize(w1, s, b)
      \* program = new Program(gl, { ..., uniforms })
      w3 == [w2 EXCEPT !.sess[s] = NewProgram(@, p, w.mousePos)]
      \* animateId = requestAnimationFrame(update)
      id == RequestAnimationFrame(w3, s)
      w4 == [w3 EXCEPT !.rafQueue = @ \cup {[id |-> id, sess |-> s]},
                       !.sess[s].animateId = id,
                       !.acquired = Append(@, "animationCallback")]
      \* ctn.appendChild(gl.canvas)
      w5 == [w4 EXCEPT !.children = @ \cup {s}, !.acquired = Append(@, "canvas")]
      \* let lastMouseUpdate = 0; if (mouseReact) ctn.addEventListener('mousemove', ...)
      w6 == [w5 EXCEPT !.sess[s].lastMouseUpdate = 0]
  IN  IF p.mouseReact
      THEN [w6 EXCEPT !.mouseListeners = @ \cup {s},
                      !.acquired = Append(@, "pointerListener")]
      ELSE w6

\* the ways construction can fail, <<stage, throws>>: no graphics context at
\* new Renderer (the effect throws before it registers anything), or a shader
\* program that does not compile at new Program, where the library constructor
\* either throws or only logs and returns a program that cannot be used
FailureModes == {<<"context", TRUE>>, <<"program", TRUE>>, <<"program", FALSE>>}

\* the effect body for session s when construction fails at stage: the effect
\* has no try / catch, so a throw leaves whatever the lines before it registered
SetupFailing(w, s, p, b, dprEnv, stage, throws) ==
  LET c0 == [NoSession EXCEPT !.live = TRUE, !.dpr = Min(dprEnv, DprCap),
                              !.mouseReact = p.mouseReact, !.failed = stage]
      w0 == [Collect(w, s) EXCEPT !.sess[s] = c0, !.acquired = <<"context">>,
                                  !.released = <<>>]
      \* window.addEventListener('resize', handleResize, false); resize()
      w1 == [w0 EXCEPT !.resizeListeners = @ \cup {s},
                       !.acquired = Append(@, "resizeListener")]
      w2 == Resize(w1, s, b)
  IN  IF stage = "context"
      THEN [Collect(w, s) EXCEPT !.sess[s] = [NoSession EXCEPT !.failed = stage],
                                 !.acquired = <<>>, !.released = <<>>, !.raised = TRUE]
      ELSE IF throws
      THEN [w2 EXCEPT !.raised = TRUE]
      ELSE [Setup(w, s, p, b, dprEnv) EXCEPT !.sess[s].failed = stage]

\* ---------------------------------------------------------------- cleanup
\* (mutation) the guard is dropped: removeChild is always called
HasParentAlways(w, s) == TRUE

\* if (gl.canvas.parentNode)
HasParent(w, s) == s \in w.children

\* (mutation) the canvas is left in the container
RemoveChildForgotten(w, s) == [w EXCEPT !.released = Append(@, "canvas")]

\* ctn.removeChild(gl.canvas): throws when the canvas is not a child of ctn
RemoveChild(w, s) ==
  IF s \in w.children
  THEN [w EXCEPT !.children = @ \ {s}, !.released = Append(@, "canvas")]
  ELSE [w EXCEPT !.raised = TRUE]

\* (mutation) the pointer listener is never removed
CleanupForgetsPointer(w, s) ==
  LET c  == w.sess[s]
      w1 == [w EXCEPT !.rafQueue = CancelAnimationFrame(@, c.animateId),
                      !.released = <<"animationCallback">>]
      w2 == [w1 EXCEPT !.timers = ClearTimeout(@, c.resizeTimeout),
                       !.released = Append(@, "debounceTimer")]
      w3 == [w2 EXCEPT !.resizeListeners = @ \ {s},
                       !.released = Append(@, "resizeListener")]
      w5 == IF HasParent(w3, s) THEN RemoveChild(w3, s) ELSE w3
  IN  [w5 EXCEPT !.sess[s].contextLost = TRUE, !.released = Append(@, "context")]

\* the function the effect returns, for session s
Cleanup(w, s) ==
  LET c  == w.sess[s]
      \* cancelAnimationFrame(animateId)
      w1 == [w EXCEPT !.rafQueue = CancelAnimationFrame(@, c.animateId),
                      !.released = <<"animationCallback">>]
      \* clearTimeout(resizeTimeout)
      w2 == [w1 EXCEPT !.timers = ClearTimeout(@, c.resizeTimeout),
                       !.released = Append(@, "debounceTimer")]
      \* window.removeEventListener('resize', handleResize)
      w3 == [w2 EXCEPT !.resizeListeners = @ \ {s},
                       !.released = Append(@, "resizeListener")]
      \* if (mouseReact) ctn.removeEventListener('mousemove', handleMouseMove)
      w4 == IF c.mouseReact
            THEN [w3 EXCEPT !.mouseListeners = @ \ {s},
                            !.released = Append(@, "pointerListener")]
            ELSE w3
      \* if (gl.canvas.parentNode) ctn.removeChild(gl.canvas)
      w5 == IF HasParent(w4, s) THEN RemoveChild(w4, s) ELSE w4
      \* gl.getExtension('WEBGL_lose_context')?.loseContext()
  IN  [w5 EXCEPT !.sess[s].contextLost = TRUE, !.released = Append(@, "context")]

\* ---------------------------------------------------------------- actions
DefaultProps ==
  [color |-> <<1, 1, 1>>, speed |-> 1, amplitude |-> <<1, 10>>, mouseReact |-> TRUE]

Init ==
  /\ now = 0
  /\ box \in ContainerSizes
  /\ devicePixelRatio \in DevicePixelRatios
  /\ mounted = FALSE
  /\ props = DefaultProps
  /\ mousePos = InitialPointer
  /\ targetMousePos = InitialPointer
  /\ cur = 0
  /\ active = FALSE
  /\ sess = [s \in Sessions |-> NoSession]
  /\ rafQueue = {}
  /\ timers = {}
  /\ resizeListeners = {}
  /\ mouseListeners = {}
  /\ children = {}
  /\ acquired = <<>>
  /\ released = <<>>
  /\ raised = FALSE

\* the host clock advances; a timeout that is due fires before time moves on
Tick(step, limit) ==
  /\ now + step <= limit
  /\ \A tm \in timers : tm.due > now
  /\ now' = now + step
  /\ UNCHANGED <<box, devicePixelRatio, mounted, props, mousePos, targetMousePos, cur,
                 active, sess, rafQueue, timers, resizeListeners, mouseListeners,
                 children, acquired, released, raised>>

\* the component is mounted with props p: new refs, then the effect runs
Mount(p) ==
  /\ ~mounted
  /\ cur < MaxSessions
  /\ mounted' = TRUE
  /\ props' = p
  /\ cur' = cur + 1
  /\ active' = TRUE
  /\ Commit(Setup([World EXCEPT !.mousePos = InitialPointer,
                                !.targetMousePos = InitialPointer],
                  cur + 1, p, box, devicePixelRatio))
  /\ UNCHANGED <<now, box, devicePixelRatio>>

\* a render with new dependencies [color, speed, amplitude, mouseReact]:
\* the previous effect's cleanup runs, then the effect runs again
ConfigChange(p) ==
  /\ mounted
  /\ active
  /\ cur < MaxSessions
  /\ props' = p
  /\ cur' = cur + 1
  /\ Commit(Setup(Cleanup(World, cur), cur + 1, p, box, devicePixelRatio))
  /\ UNCHANGED <<now, box, devicePixelRatio, mounted, active>>

\* the component is unmounted: the effect's cleanup runs
Unmount ==
  /\ mounted
  /\ active
  /\ mounted' = FALSE
  /\ active' = FALSE
  /\ Commit(Cleanup(World, cur))
  /\ UNCHANGED <<now, box, devicePixelRatio, props, cur>>

\* the cleanup function of the latest session is invoked once more
CleanupAgain ==
  /\ ~active
  /\ cur > 0
  /\ sess[cur].live
  /\ Commit(Cleanup(World, cur))
  /\ UNCHANGED <<now, box, devicePixelRatio, mounted, props, cur, active>>

\* the host runs a pending animation callback with timestamp now
AnimationFrame(e) ==
  /\ e \in rafQueue
  /\ Commit(Update(World, e, now))
  /\ UNCHANGED <<now, box, devicePixelRatio, mounted, props, cur, active>>

\* a pending timeout is due: the host runs resize()
TimerFire(tm) ==
  /\ tm \in timers
  /\ now >= tm.due
  /\ Commit(Resize([World EXCEPT !.timers = @ \ {tm}], tm.sess, box))
  /\ UNCHANGED <<now, box, devicePixelRatio, mounted, props, cur, active>>

\* the window is resized and the container's box becomes b
WindowResize(b) ==
  /\ mounted
  /\ box' = b
  /\ Commit(DispatchResize(World, resizeListeners, now))
  /\ UNCHANGED <<now, devicePixelRatio, mounted, props, cur, active>>

\* the pointer moves over the container, at offset pt from its corner
PointerMove(pt) ==
  /\ mounted
  /\ mouseListeners # {}
  /\ pt[1] <= box[1] /\ pt[2] <= box[2]
  /\ Commit(DispatchMouseMove(World, mouseListeners, pt, box, now))
  /\ UNCHANGED <<now, box, devicePixelRatio, mounted, props, cur, active>>

\* the component is mounted with props p and construction fails: when the effect
\* throws, React unmounts the component and has no cleanup function to call
MountFails(p, mode) ==
  /\ ~mounted
  /\ cur < MaxSessions
  /\ mounted' = ~mode[2]
  /\ active' = ~mode[2]
  /\ props' = p
  /\ cur' = cur + 1
  /\ Commit(SetupFailing([World EXCEPT !.mousePos = InitialPointer,
                                       !.targetMousePos = InitialPointer],
                         cur + 1, p, box, devicePixelRatio, mode[1], mode[2]))
  /\ UNCHANGED <<now, box, devicePixelRatio>>

\* a render with new dependencies: the previous effect's cleanup runs, then the
\* effect runs again and construction fails
ConfigChangeFails(p, mode) ==
  /\ mounted
  /\ active
  /\ cur < MaxSessions
  /\ mounted' = ~mode[2]
  /\ active' = ~mode[2]
  /\ props' = p
  /\ cur' = cur + 1
  /\ Commit(SetupFailing(Cleanup(World, cur), cur + 1, p, box, devicePixelRatio,
                         mode[1], mode[2]))
  /\ UNCHANGED <<now, box, devicePixelRatio>>

\* the graphics backend invalidates the context of the running session (the
\* canvas gets a webglcontextlost event): the effect registers no listener for
\* it, so no code of the component runs
ContextLoss ==
  /\ active
  /\ ~sess[cur].contextLost
  /\ sess' = [sess EXCEPT ![cur].contextLost = TRUE]
  /\ UNCHANGED <<now, box, devicePixelRatio, mounted, props, mousePos, targetMousePos,
                 cur, active, rafQueue, timers, resizeListeners, mouseListeners,
                 children, acquired, released, raised>>

Remount == \E p \in Configs : Mount(p)

FailedMount == \E p \in Configs : \E mode \in FailureModes : MountFails(p, mode)

FailedRerender == \E p \in Configs : \E mode \in FailureModes : ConfigChangeFails(p, mode)

Rerender == \E p \in Configs : ConfigChange(p)

Frame == \E e \in rafQueue : AnimationFrame(e)

Timeout == \E tm \in timers : TimerFire(tm)

ResizeEvent == \E b \in ContainerSizes : WindowResize(b)

PointerEvent == \E pt \in ClientPoints : PointerMove(pt)

AnyPointerEvent == \E pt \in ClientPoints \cup MorePoints : PointerMove(pt)

\* every host event, on the coarse clock
Next ==
  \/ Tick(CoarseStep, MaxTime)
  \/ Remount
  \/ Rerender
  \/ Unmount
  \/ CleanupAgain
  \/ Frame
  \/ Timeout
  \/ ResizeEvent
  \/ PointerEvent

Spec == Init /\ [][Next]_vars

\* the animation loop and the lifecycle, on the fine clock
NextFrames ==
  \/ Tick(TimeStep, FrameHorizon)
  \/ Remount
  \/ Rerender
  \/ Unmount
  \/ CleanupAgain
  \/ Frame

SpecFrames == Init /\ [][NextFrames]_vars

\* the resize debounce and the lifecycle, on the fine clock
NextResize ==
  \/ Tick(TimeStep, MaxTime)
  \/ Remount
  \/ Rerender
  \/ Unmount
  \/ CleanupAgain
  \/ Timeout
  \/ ResizeEvent

SpecResize == Init /\ [][NextResize]_vars

\* the pointer throttle and the lifecycle, on the fine clock
NextPointer ==
  \/ Tick(TimeStep, MaxTime)
  \/ Remount
  \/ Rerender
  \/ Unmount
  \/ CleanupAgain
  \/ AnyPointerEvent

SpecPointer == Init /\ [][NextPointer]_vars

\* the animation loop under a host that keeps its promises: the clock goes on
\* (up to the horizon) and a pending animation callback is run in the end
NextProgress ==
  \/ Tick(TimeStep, ProgressHorizon)
  \/ Remount
  \/ Rerender
  \/ Unmount
  \/ Frame

\* weak fairness of Frame, WF_vars(Frame), written out: a callback run always
\* stores a new handle, so ENABLED <<Frame>>_vars is rafQueue # {}
FrameFairness == []<>(rafQueue = {}) \/ []<><<Frame>>_vars

SpecProgress ==
  /\ Init
  /\ [][NextProgress]_vars
  /\ WF_vars(Tick(TimeStep, ProgressHorizon))
  /\ FrameFairness

SmoothingPointerEvent == \E pt \in ClientPoints \cup NearPoints : PointerMove(pt)

\* the animation loop fed by pointer events, in one session
NextSmoothing ==
  \/ Tick(SmoothStep, SmoothHorizon)
  \/ Remount
  \/ Frame
  \/ SmoothingPointerEvent

SpecSmoothing == Init /\ [][NextSmoothing]_vars

\* the lifecycle with its failures: construction that fails and a graphics
\* context that is lost while the session runs, on the coarse clock
NextFaults ==
  \/ Tick(CoarseStep, MaxTime)
  \/ Remount
  \/ Rerender
  \/ Unmount
  \/ CleanupAgain
  \/ FailedMount
  \/ FailedRerender
  \/ ContextLoss

SpecFaults == Init /\ [][NextFaults]_vars

\* ================================================================= claims
\* m milliseconds in units of time
Ms(m) == (m * 3) \div 10

LiveSessions == {s \in Sessions : sess[s].live}

\* ------------------------------------------------------------------- C1
\* C1 (as stated): any two frames admitted in one session are at least
\* frameIntervalMs apart.
C1_FramesAtLeastIntervalApart ==
  \A s \in LiveSessions : \A t1, t2 \in sess[s].drawn :
    t1 < t2 => t2 - t1 >= FRAME_DURATION

\* C1 (amended): in one session at most one frame is admitted in each aligned
\* window [k * frameIntervalMs, (k+1) * frameIntervalMs): two admitted frames
\* never share a window, though they may be less than frameIntervalMs apart.
C1_OneFramePerAlignedWindow ==
  \A s \in LiveSessions : \A t1, t2 \in sess[s].drawn :
    t1 # t2 => (t1 \div FRAME_DURATION) # (t2 \div FRAME_DURATION)

\* two frames admitted less than frameIntervalMs apart, in adjacent windows
C1_Witness ==
  \E s \in LiveSessions : \E t1, t2 \in sess[s].drawn :
    /\ t1 < t2
    /\ t2 - t1 < FRAME_DURATION
    /\ (t2 \div FRAME_DURATION) = (t1 \div FRAME_DURATION) + 1

\* ------------------------------------------------------------------- C2
\* the callbacks of the scenario: t = 0, 10, 20, 30, 40 ms
ScenarioCalls == {Ms(0), Ms(10), Ms(20), Ms(30), Ms(40)}

\* C2 (as stated): in a fresh session that received callbacks at 0, 10, 20, 30
\* and 40 ms, exactly one callback with a timestamp in [0, 40) was admitted.
C2_OneFrameBefore40 ==
  \A s \in LiveSessions :
    sess[s].calls = ScenarioCalls =>
      Cardinality({t \in sess[s].drawn : t < Ms(40)}) = 1

\* C2 (amended): in a fresh session that received callbacks at 0, 10, 20, 30 and
\* 40 ms, exactly one callback was admitted, the one at 40 ms; none of those in
\* [0, 40) was, because lastFrameTime starts at 0.
C2_OnlyTheCallbackAt40 ==
  \A s \in LiveSessions :
    sess[s].calls = ScenarioCalls => sess[s].drawn = {Ms(40)}

\* a session that received exactly the callbacks of the scenario
C2_Witness ==
  \E s \in LiveSessions : sess[s].calls = ScenarioCalls /\ sess[s].lastFrameTime = FRAME_DURATION

\* ------------------------------------------------------------------- C3
Range(q) == {q[i] : i \in 1..Len(q)}

NoRegistrations ==
  /\ rafQueue = {}
  /\ timers = {}
  /\ resizeListeners = {}
  /\ mouseListeners = {}
  /\ children = {}

\* the latest session's cleanup has run, once or more
TornDown == cur > 0 /\ ~active

\* C3: teardown is idempotent and leak-free: after the cleanup function has run,
\* once or twice, nothing has been raised and no resize listener, pointer
\* listener, debounce timer, animation callback or canvas node is left.
C3_TeardownLeakFree == ~raised /\ (TornDown => NoRegistrations)

\* the cleanup of a pointer-reactive session that had seen a resize event and a
\* pointer event has run a second time (the canvas was already detached)
C3_Witness ==
  /\ TornDown
  /\ sess[cur].live
  /\ sess[cur].mouseReact
  /\ sess[cur].moved
  /\ sess[cur].resizeTimeout # 0
  /\ released # <<>>
  /\ "canvas" \notin Range(released)

\* ------------------------------------------------------------------- C8
\* the sessions that hold some registration at the host
RegisteredSessions == {s \in Sessions : Registered(World, s)}

\* C8: at most one session is active at a time: the container holds at most
\* one canvas, exactly one while a session is active, and every listener, timer
\* and animation callback registered belongs to the one active session.
C8_OneSessionAtATime ==
  /\ Cardinality(children) <= 1
  /\ active => children = {cur}
  /\ RegisteredSessions \subseteq (IF active THEN {cur} ELSE {})
  /\ Cardinality(rafQueue) <= 1
  /\ active => Cardinality(rafQueue) = 1

\* a second session is active after a re-render changed the configuration
C8_Witness ==
  /\ active
  /\ cur = 2
  /\ mounted
  /\ children = {2}
  /\ resizeListeners = {2}
  /\ sess[2].calls # {}

\* ------------------------------------------------------------------- C9
Pos(q, x) == CHOOSE i \in 1..Len(q) : q[i] = x

\* the registrations the claim lists
ListedResources == {"resizeListener", "animationCallback", "canvas", "pointerListener"}

\* C9 (as stated): teardown releases the registrations in the exact reverse of
\* the order setup acquired them: of every two, the one acquired later is
\* released earlier.
C9_ReverseOrder ==
  (TornDown /\ "canvas" \in Range(released)) =>
    \A a, b \in ListedResources \cap Range(acquired) \cap Range(released) :
      Pos(acquired, a) < Pos(acquired, b) => Pos(released, b) < Pos(released, a)

\* the order of the release calls in the cleanup function
ReleaseOrder(pointer) ==
  <<"animationCallback", "debounceTimer", "resizeListener">>
    \o (IF pointer THEN <<"pointerListener">> ELSE <<>>)
    \o <<"canvas", "context">>

\* C9 (amended): teardown releases every registration setup acquired, in the
\* fixed order animation callback, debounce timer, resize listener, pointer
\* listener (when pointer-reactive), canvas, context; this is not the reverse of
\* the order of acquisition (context, resize listener, animation callback,
\* canvas, pointer listener).
C9_FixedReleaseOrder ==
  (TornDown /\ "canvas" \in Range(released)) =>
    /\ released = ReleaseOrder(sess[cur].mouseReact)
    /\ Range(acquired) \subseteq Range(released)
    /\ acquired = <<"context", "resizeListener", "animationCallback", "canvas">>
                    \o (IF sess[cur].mouseReact THEN <<"pointerListener">> ELSE <<>>)

\* the first cleanup of a pointer-reactive session has run
C9_Witness ==
  /\ TornDown
  /\ "canvas" \in Range(released)
  /\ "pointerListener" \in Range(released)
  /\ sess[cur].calls # {}

\* ------------------------------------------------------------------ C10
\* the latest session is set up and no debounced resize is outstanding
Settled == active /\ timers = {}

\* C10 (as stated): after the initial resize and after every debounced resize
\* the resolution uniform is (width * 0.5, height * 0.5, width / height) of the
\* container's box, whatever the device pixel ratio.
C10_HalfOfContainer ==
  Settled =>
    /\ Div(sess[cur].uResolution[1], 1) = Div(box[1], 2)
    /\ Div(sess[cur].uResolution[2], 1) = Div(box[2], 2)
    /\ sess[cur].uResolution[3] = Div(box[1], box[2])

\* C10 (amended): after the initial resize and after every debounced resize the
\* resolution uniform is (cw, ch, cw / ch) where cw and ch are the canvas
\* dimensions width * 0.5 * dpr and height * 0.5 * dpr truncated to integers and
\* dpr = min(devicePixelRatio, 1.5); it is (width * 0.5, height * 0.5,
\* width / height) when dpr = 1 and both halves are integers, so an 800 x 600
\* container at devicePixelRatio 1 gives (400, 300, 4/3).
C10_ScaledCanvas ==
  Settled =>
    LET dpr == IF devicePixelRatio < DprCap THEN devicePixelRatio ELSE DprCap
        cw  == (box[1] * dpr) \div ScaleDen
        ch  == (box[2] * dpr) \div ScaleDen
    IN  /\ sess[cur].uResolution = <<cw, ch, Div(cw, ch)>>
        /\ (box = <<800, 600>> /\ devicePixelRatio = 2) =>
             sess[cur].uResolution = <<400, 300, <<4, 3>>>>

\* a debounced resize has run and left an 800 x 600 container at (400, 300, 4/3)
C10_Witness ==
  /\ Settled
  /\ sess[cur].resizeTimeout # 0
  /\ box = <<800, 600>>
  /\ sess[cur].uResolution = <<400, 300, <<4, 3>>>>

\* ------------------------------------------------------------------- C4
\* the scheduler of session s has been stopped: its cleanup has run
Stopped(s) == s < cur \/ (s = cur /\ ~active)

\* what update() of session s writes
SchedulerState(s) ==
  <<sess[s].animateId, sess[s].lastFrameTime, sess[s].calls, sess[s].drawn,
    sess[s].uTime, sess[s].uMouse>>

\* C4: the scheduler is one-way, Idle -> Running -> Stopped: once the cleanup
\* has cancelled the pending callback, no callback of that session is pending,
\* update() is not invoked and nothing is drawn for it again, a second cleanup
\* changes nothing of it, and the session does not become active again.
C4_StoppedIsTerminal ==
  /\ [](\A e \in rafQueue : ~Stopped(e.sess))
  /\ [][\A s \in Sessions :
          (Stopped(s) /\ sess[s].live /\ sess'[s].live) =>
             /\ SchedulerState(s)' = SchedulerState(s)
             /\ Stopped(s)']_vars
  /\ [][CleanupAgain => (rafQueue' = rafQueue /\ SchedulerState(cur)' = SchedulerState(cur))]_vars

\* a session stopped after callbacks of which some were drawn and some skipped,
\* and whose cleanup has then run a second time
C4_Witness ==
  /\ TornDown
  /\ sess[cur].live
  /\ sess[cur].drawn # {}
  /\ sess[cur].calls # sess[cur].drawn
  /\ released # <<>>
  /\ "canvas" \notin Range(released)

\* ------------------------------------------------------------------- C5
\* what resize() of session s writes
ResizeState(s) == <<sess[s].canvasW, sess[s].canvasH, sess[s].uResolution>>

\* C5: the resize debounce: at most one debounce timer is pending at any time;
\* every resize event replaces it by one due 100 ms later and recomputes
\* nothing itself; resize() runs after mount only when that timer fires, that is
\* once 100 ms have passed since the last resize event, and leaves no timer.
C5_ResizeDebounce ==
  /\ [](Cardinality(timers) <= 1)
  /\ [][(ResizeEvent /\ active) =>
          /\ timers' = {[id |-> sess'[cur].resizeTimeout, sess |-> cur,
                         due |-> now + RESIZE_DEBOUNCE]}
          /\ ResizeState(cur)' = ResizeState(cur)]_vars
  /\ [][(cur' = cur /\ active /\ ResizeState(cur)' # ResizeState(cur)) =>
          /\ Cardinality(timers) = 1
          /\ \A tm \in timers :
                tm.sess = cur /\ tm.id = sess[cur].resizeTimeout /\ now >= tm.due
          /\ timers' = {}]_vars

\* a burst of two resize events has been answered by one recompute: the second
\* timer of the session has fired before the first one could have
C5_Witness ==
  /\ active
  /\ cur = 1
  /\ timers = {}
  /\ sess[1].resizeTimeout = 2
  /\ now < 2 * RESIZE_DEBOUNCE
  /\ sess[1].uResolution[1] # CanvasDim(800, sess[1].dpr)

\* ------------------------------------------------------------------- C6
\* the pointer-reactive session that receives the container's pointer events
Listening == active /\ sess[cur].mouseReact

\* C6 (as stated): the first pointer event after attach is accepted and updates
\* target, whatever the clock value at which it occurs.
C6_FirstEventAccepted ==
  [][\A pt \in ClientPoints \cup MorePoints :
       (PointerMove(pt) /\ Listening /\ ~sess[cur].moved) =>
          /\ targetMousePos' = PointerTarget(pt, box)
          /\ sess'[cur].lastMouseUpdate = now]_vars

\* C6 (amended): a pointer event at clock value t is accepted, and sets target,
\* exactly when t - lastMouseUpdate >= 50 ms, where lastMouseUpdate is the time
\* of the last accepted event and 0 before the first; so the first event after
\* attach is accepted only if it occurs at t >= 50 ms.  Any other event leaves
\* target unchanged and is never applied later: target changes only while a
\* pointer event is handled (or when the component is mounted anew).
C6_ThrottleFromZero ==
  /\ [][\A pt \in ClientPoints \cup MorePoints :
          (PointerMove(pt) /\ Listening) =>
             IF now - sess[cur].lastMouseUpdate >= MOUSE_THROTTLE
             THEN /\ targetMousePos' = PointerTarget(pt, box)
                  /\ sess'[cur].lastMouseUpdate = now
             ELSE /\ targetMousePos' = targetMousePos
                  /\ sess'[cur].lastMouseUpdate = sess[cur].lastMouseUpdate]_vars
  /\ [][targetMousePos' # targetMousePos => (AnyPointerEvent \/ Remount)]_vars
  /\ [](Listening /\ ~sess[cur].moved => sess[cur].lastMouseUpdate = 0)

\* the session's first pointer event came before 50 ms and was dropped: the
\* handler has run, nothing has been accepted and target is untouched
C6_Witness ==
  /\ Listening
  /\ sess[cur].moved
  /\ sess[cur].lastMouseUpdate = 0
  /\ now < MOUSE_THROTTLE
  /\ targetMousePos = InitialPointer

\* ------------------------------------------------------------------- C7
\* the latest session has been set up and none of its handlers has run yet
FreshSession ==
  /\ active
  /\ sess[cur].calls = {}
  /\ ~sess[cur].moved

\* C7 (as stated): after a change of configuration every session entity starts
\* from its initial value: pointer current and target, lastAdmittedTime and the
\* uniforms; nothing written during the previous session is visible.
C7_EverythingStartsInitial ==
  FreshSession =>
    /\ mousePos = InitialPointer
    /\ targetMousePos = InitialPointer
    /\ sess[cur].uMouse = <<Half, Half>>
    /\ sess[cur].lastFrameTime = 0
    /\ sess[cur].uTime = <<0, 1>>

\* C7 (amended): a change of configuration tears the session down and creates
\* the session-scoped state anew: lastFrameTime = 0, lastMouseUpdate = 0, no
\* frame drawn, time uniform 0, colour, amplitude and speed uniforms from the new
\* props, resolution uniform from the canvas.  PointerState is not recreated:
\* current and target live in refs of the component, keep the values of the
\* previous session, and the new pointer uniform starts at the carried-over
\* current; they start at (0.5, 0.5) only when the component is mounted.
C7_SessionStateRecreated ==
  /\ [](FreshSession =>
          /\ sess[cur].lastFrameTime = 0
          /\ sess[cur].lastMouseUpdate = 0
          /\ sess[cur].drawn = {}
          /\ ~sess[cur].contextLost
          /\ sess[cur].uTime = <<0, 1>>
          /\ sess[cur].uColor = props.color
          /\ sess[cur].uAmplitude = props.amplitude
          /\ sess[cur].uSpeed = props.speed
          /\ sess[cur].mouseReact = props.mouseReact
          /\ sess[cur].uResolution = Resolution(sess[cur].canvasW, sess[cur].canvasH)
          /\ sess[cur].uMouse = <<mousePos.x, mousePos.y>>)
  /\ [][Rerender => (mousePos' = mousePos /\ targetMousePos' = targetMousePos)]_vars
  /\ [][Remount => (mousePos' = InitialPointer /\ targetMousePos' = InitialPointer)]_vars

\* a session created by a change of configuration starts with the pointer state
\* the previous session left
C7_Witness ==
  /\ FreshSession
  /\ cur = 2
  /\ mousePos # InitialPointer
  /\ targetMousePos # InitialPointer
  /\ mousePos # targetMousePos

\* ------------------------------------------------------------------ C11
\* C11: in every state of a session the resolution uniform holds the canvas
\* width and height of the most recently applied resize, and its aspect
\* component is the quotient width / height of the two values stored with it;
\* the aspect is never written on its own.
C11_AspectFollowsSize ==
  /\ [](\A s \in LiveSessions :
          /\ sess[s].hasProgram
          /\ sess[s].uResolution[1] = sess[s].canvasW
          /\ sess[s].uResolution[2] = sess[s].canvasH
          /\ sess[s].uResolution[3] = Div(sess[s].uResolution[1], sess[s].uResolution[2]))
  /\ [][\A s \in Sessions :
          (sess[s].live /\ sess'[s].live /\
             sess'[s].uResolution[3] # sess[s].uResolution[3]) =>
               <<sess'[s].uResolution[1], sess'[s].uResolution[2]>> #
                 <<sess[s].uResolution[1], sess[s].uResolution[2]>>]_vars

\* a debounced resize has replaced the 4:3 resolution of the first layout by
\* the 2:1 resolution of the 1001 x 500 container at pixel ratio 1
C11_Witness ==
  /\ active
  /\ timers = {}
  /\ sess[cur].resizeTimeout # 0
  /\ box = <<1001, 500>>
  /\ sess[cur].uResolution = <<500, 250, <<2, 1>>>>

\* ------------------------------------------------------------------ C12
\* C12: every accepted pointer event sets target to the container-relative
\* normalised position with Y flipped, x = (clientX - left) / width and
\* y = 1 - (clientY - top) / height, so an event at relative (0.25, 0.75) sets
\* target = (0.25, 0.25); the handler writes target only: current and the
\* pointer uniform are left alone whether the event is accepted or dropped.
C12_NormalisedFlippedTarget ==
  /\ [][\A pt \in ClientPoints \cup MorePoints :
          (PointerMove(pt) /\ Listening /\
             now - sess[cur].lastMouseUpdate >= MOUSE_THROTTLE) =>
               /\ targetMousePos'.x = Div(pt[1], box[1])
               /\ targetMousePos'.y = RatSub(<<1, 1>>, Div(pt[2], box[2]))
               /\ (Div(pt[1], box[1]) = <<1, 4>> /\ Div(pt[2], box[2]) = <<3, 4>>) =>
                     targetMousePos' = [x |-> <<1, 4>>, y |-> <<1, 4>>]]_vars
  /\ [][AnyPointerEvent =>
          /\ mousePos' = mousePos
          /\ \A s \in Sessions : sess'[s].uMouse = sess[s].uMouse]_vars

\* an event at (0.25, 0.75) of the 800 x 600 container has just been accepted,
\* after an earlier one had already drawn current away from the centre
C12_Witness ==
  /\ Listening
  /\ box = <<800, 600>>
  /\ now >= 2 * MOUSE_THROTTLE
  /\ sess[cur].lastMouseUpdate = now
  /\ targetMousePos = [x |-> <<1, 4>>, y |-> <<1, 4>>]
  /\ mousePos # InitialPointer
  /\ mousePos # targetMousePos

\* ------------------------------------------------------------------ C13
\* C13 (as stated): when acquiring the graphics context or compiling the shader
\* program fails during construction, nothing of the failed session is left: no
\* canvas in the container and no resize listener, pointer listener, timer or
\* animation callback registered for it.
C13_FailureLeavesNothing ==
  \A s \in Sessions : sess[s].failed # "none" => ~Registered(World, s)

\* ------------------------------------------------------------------ C14
\* C14 (as stated): when the graphics context of a running session is lost, the
\* session is not recreated on its own account (the lost session stays the
\* latest one) and, while it runs on, the loss has been surfaced to the host as
\* an error it can observe.
C14_LossSurfaced ==
  /\ [][ContextLoss => (cur' = cur /\ active')]_vars
  /\ []((active /\ sess[cur].contextLost) => raised)

\* ------------------------------------------------------------------ C15
\* the callback of session s run in this step is admitted by the limiter
AdmittedNow(s) == now - sess[s].lastFrameTime >= FRAME_DURATION

\* what an admitted callback of session s does in this step, apart from the
\* order: one smoothing step of current towards the unchanged target, the
\* pointer uniform set to the smoothed current, the time uniform set to t / 1000,
\* one draw, with the resolution uniform as the latest resize left it
AdmittedFrameEffects(s) ==
  /\ targetMousePos' = targetMousePos
  /\ RatMul(RatSub(mousePos'.x, mousePos.x), <<10, 1>>) = RatSub(targetMousePos.x, mousePos.x)
  /\ RatMul(RatSub(mousePos'.y, mousePos.y), <<10, 1>>) = RatSub(targetMousePos.y, mousePos.y)
  /\ sess'[s].uMouse = <<mousePos'.x, mousePos'.y>>
  /\ sess'[s].uTime = Div(now, 300)
  /\ now \notin sess[s].drawn
  /\ sess'[s].drawn = sess[s].drawn \cup {now}
  /\ Cardinality({i \in 1..Len(sess'[s].ops) : sess'[s].ops[i] = "draw"}) = 1
  /\ sess'[s].uResolution = sess[s].uResolution
  /\ sess'[s].uResolution =
       <<sess[s].canvasW, sess[s].canvasH, Div(sess[s].canvasW, sess[s].canvasH)>>

\* C15 (as stated): in every admitted callback the steps are, in this order, the
\* smoothing step, the write of the time uniform, exactly one draw, and only
\* then the scheduling of the next callback; the draw reads the pointer value
\* smoothed in the same callback and the resolution of the latest resize.
C15_DrawThenSchedule ==
  [][\A e \in rafQueue :
       (AnimationFrame(e) /\ AdmittedNow(e.sess)) =>
          /\ sess'[e.sess].ops = <<"smooth", "time", "draw", "schedule">>
          /\ AdmittedFrameEffects(e.sess)]_vars

\* C15 (amended): in every admitted callback the next animation callback is
\* scheduled first, before the limiter's test; then come, in this order, the
\* smoothing step, the write of the time uniform and exactly one draw, which
\* reads the pointer value smoothed in the same callback and the resolution of
\* the latest resize.
C15_ScheduleThenDraw ==
  [][\A e \in rafQueue :
       (AnimationFrame(e) /\ AdmittedNow(e.sess)) =>
          /\ sess'[e.sess].ops = <<"schedule", "smooth", "time", "draw">>
          /\ AdmittedFrameEffects(e.sess)]_vars

\* a frame has just been drawn with a pointer value smoothed towards an accepted
\* event and with the resolution a debounced resize wrote
C15_Witness ==
  /\ active
  /\ sess[cur].ops = <<"schedule", "smooth", "time", "draw">>
  /\ now \in sess[cur].drawn
  /\ sess[cur].lastMouseUpdate # 0
  /\ mousePos # InitialPointer
  /\ sess[cur].uMouse = <<mousePos.x, mousePos.y>>
  /\ sess[cur].resizeTimeout # 0
  /\ timers = {}
  /\ sess[cur].uResolution = <<500, 250, <<2, 1>>>>
  /\ box = <<1001, 500>>

\* ------------------------------------------------------------------ C16
\* C16: a callback that is not admitted (elapsed < frameIntervalMs) schedules
\* the next callback and does nothing else: lastFrameTime, pointer current and
\* target, the time, pointer and resolution uniforms are unchanged and nothing
\* is drawn.
C16_SkippedOnlySchedules ==
  [][\A e \in rafQueue :
       (AnimationFrame(e) /\ now - sess[e.sess].lastFrameTime < FRAME_DURATION) =>
          /\ sess'[e.sess].ops = <<"schedule">>
          /\ \E n \in rafQueue' :
                /\ n.sess = e.sess
                /\ n.id = sess'[e.sess].animateId
                /\ n.id # e.id
                /\ rafQueue' = (rafQueue \ {e}) \cup {n}
          /\ sess'[e.sess].lastFrameTime = sess[e.sess].lastFrameTime
          /\ sess'[e.sess].drawn = sess[e.sess].drawn
          /\ sess'[e.sess].uTime = sess[e.sess].uTime
          /\ sess'[e.sess].uMouse = sess[e.sess].uMouse
          /\ sess'[e.sess].uResolution = sess[e.sess].uResolution
          /\ mousePos' = mousePos
          /\ targetMousePos' = targetMousePos
          /\ UNCHANGED <<timers, resizeListeners, mouseListeners, children, raised>>]_vars

\* a callback has just been skipped after an earlier frame was drawn, while
\* current was still on its way to the target
C16_Witness ==
  /\ active
  /\ sess[cur].ops = <<"schedule">>
  /\ now \in sess[cur].calls
  /\ sess[cur].drawn # {}
  /\ now - sess[cur].lastFrameTime < FRAME_DURATION
  /\ mousePos # targetMousePos
  /\ sess[cur].uMouse # <<Half, Half>>

\* ------------------------------------------------------------------ C17
RatLeq(p, q) ==
  LET l == LCM(p[2], q[2]) IN p[1] * (l \div p[2]) <= q[1] * (l \div q[2])

\* |a - b|
Dist(a, b) == LET d == RatSub(a, b) IN <<Abs(d[1]), d[2]>>

\* x lies between a and b, ends included
Between(x, a, b) ==
  \/ RatLeq(a, x) /\ RatLeq(x, b)
  \/ RatLeq(b, x) /\ RatLeq(x, a)

\* an upper bound of 0.9^n in units of 1/10000, every product rounded up:
\* 0.9^(2k) = (0.9^k)^2 and 0.9^(2k+1) = 0.9 * 0.9^(2k)
RECURSIVE DecayBound(_)
DecayBound(n) ==
  IF n = 0 THEN 10000
  ELSE IF n % 2 = 0
       THEN LET h == DecayBound(n \div 2) IN (h * h + 9999) \div 10000
       ELSE (9 * DecayBound(n - 1) + 9) \div 10

\* the frames of the latest session drawn after its last accepted pointer
\* event, that is while target was held
FramesSinceTarget ==
  Cardinality({t \in sess[cur].drawn : t > sess[cur].lastMouseUpdate})

Axes == {"x", "y"}

\* C17: the smoothing converges monotonically and never overshoots: an admitted
\* frame moves current, per axis, to a value between its previous value and
\* target and leaves exactly 0.9 of the distance; a skipped callback does not
\* move current; so after n admitted frames with target held the distance is at
\* most 0.9^n, which is below 0.001 from the 66th frame on
\* (66 = ceil(log(1/0.001) / log(1/0.9))).
C17_SmoothingConverges ==
  /\ [][\A e \in rafQueue :
          AnimationFrame(e) =>
            IF now - sess[e.sess].lastFrameTime >= FRAME_DURATION
            THEN /\ targetMousePos' = targetMousePos
                 /\ \A a \in Axes :
                      /\ Between(mousePos'[a], mousePos[a], targetMousePos[a])
                      /\ RatMul(Dist(targetMousePos[a], mousePos'[a]), <<10, 1>>) =
                           RatMul(Dist(targetMousePos[a], mousePos[a]), <<9, 1>>)
            ELSE mousePos' = mousePos]_vars
  /\ [](active =>
          \A a \in Axes :
            RatLeq(Dist(targetMousePos[a], mousePos[a]),
                   Div(DecayBound(FramesSinceTarget), 10000)))
  /\ [](RatLeq(Div(DecayBound(66), 10000), <<1, 1000>>))

\* current, 0.00125 away from target when the event was accepted, has come
\* within 0.001 of it without reaching it
C17_Witness ==
  /\ active
  /\ targetMousePos = [x |-> <<401, 800>>, y |-> Half]
  /\ mousePos.x # targetMousePos.x
  /\ RatLeq(Dist(targetMousePos.x, mousePos.x), <<1, 1000>>)
  /\ FramesSinceTarget >= 3

\* ------------------------------------------------------------------ C18
\* C18: the frame clock: lastFrameTime is always an integer multiple of
\* FRAME_DURATION, starting from 0; right after a frame is admitted at t,
\* 0 <= t - lastFrameTime < FRAME_DURATION; hence no aligned window
\* [k * FRAME_DURATION, (k+1) * FRAME_DURATION) holds two admitted frames and the
\* frames admitted up to any time T number at most floor(T / FRAME_DURATION).
C18_FrameClockAligned ==
  /\ [](\A s \in LiveSessions :
          /\ sess[s].lastFrameTime % FRAME_DURATION = 0
          /\ sess[s].lastFrameTime >= 0
          /\ sess[s].drawn = {} => sess[s].lastFrameTime = 0
          /\ \A k \in 0..(now \div FRAME_DURATION) :
               Cardinality({t \in sess[s].drawn : t \div FRAME_DURATION = k}) <= 1
          /\ \A T \in 0..now :
               Cardinality({t \in sess[s].drawn : t <= T}) <= T \div FRAME_DURATION)
  /\ [][\A e \in rafQueue :
          (AnimationFrame(e) /\ sess'[e.sess].drawn # sess[e.sess].drawn) =>
             /\ 0 <= now - sess'[e.sess].lastFrameTime
             /\ now - sess'[e.sess].lastFrameTime < FRAME_DURATION]_vars

\* two frames admitted at timestamps that are no multiples of the interval: the
\* clock stands at the start of the second one's window and the count of frames
\* has reached floor(T / FRAME_DURATION)
C18_Witness ==
  \E s \in LiveSessions :
    /\ now \in sess[s].drawn
    /\ now % FRAME_DURATION # 0
    /\ sess[s].lastFrameTime = 2 * FRAME_DURATION
    /\ Cardinality(sess[s].drawn) = 2
    /\ \A t \in sess[s].drawn : t % FRAME_DURATION # 0

\* ------------------------------------------------------------------ C19
\* the callback animateId of the latest session names
NamedCallback == [id |-> sess[cur].animateId, sess |-> cur]

\* C19: while a session runs, exactly one animation callback is pending between
\* invocations and animateId names it; every invocation of update(), admitted or
\* skipped, registers exactly one successor, under a new handle, before it does
\* anything else; so the handle teardown cancels is that of the only pending
\* callback, and none is pending afterwards.
C19_OnePendingCallback ==
  /\ [](IF active THEN rafQueue = {NamedCallback} ELSE rafQueue = {})
  /\ [][\A e \in rafQueue :
          AnimationFrame(e) =>
             /\ e = NamedCallback
             /\ sess'[cur].ops[1] = "schedule"
             /\ \A i \in 2..Len(sess'[cur].ops) : sess'[cur].ops[i] # "schedule"
             /\ sess'[cur].animateId # sess[cur].animateId
             /\ rafQueue' = {NamedCallback'}]_vars
  /\ [][(Unmount \/ Rerender) =>
          /\ rafQueue = {NamedCallback}
          /\ NamedCallback \notin rafQueue']_vars

\* a second session runs, after skipped and admitted callbacks, with its one
\* pending callback
C19_Witness ==
  /\ active
  /\ cur = 2
  /\ sess[cur].drawn # {}
  /\ sess[cur].calls # sess[cur].drawn
  /\ rafQueue = {NamedCallback}

\* ------------------------------------------------------------------ C20
\* a frame is due in the running session: the interval has passed since
\* lastFrameTime
Overdue == active /\ now - sess[cur].lastFrameTime >= FRAME_DURATION

\* the last value the clock of the animation loop's specifications takes
LastClock == (ProgressHorizon \div TimeStep) * TimeStep

\* C20: progress of the loop: while the session is not torn down and the host
\* keeps running the pending callback with growing timestamps, the limiter
\* cannot skip for ever: a frame that is due is drawn in the end (or the session
\* torn down), and a session that is never torn down draws frames as far as the
\* clock goes, up to the last window of the interval it reaches.
C20_FramesKeepComing ==
  /\ Overdue ~> ~Overdue
  /\ <>[]active =>
       <>(active /\ \E t \in sess[cur].drawn :
            t \div FRAME_DURATION = LastClock \div FRAME_DURATION)

\* the running session has drawn a frame in the last window the clock reaches,
\* after an earlier frame and callbacks that were skipped
C20_Witness ==
  /\ active
  /\ now = LastClock
  /\ LastClock >= 2 * FRAME_DURATION
  /\ \E t \in sess[cur].drawn : t \div FRAME_DURATION = LastClock \div FRAME_DURATION
  /\ Cardinality(sess[cur].drawn) >= 2
  /\ Cardinality(sess[cur].calls) >= 4

====
